---- MODULE Spec2Model ----
(***************************************************************************)
(* Model of airflow/serialization/serialized_objects.py: the value codec   *)
(* (BaseSerialization._serialize / _deserialize), the operator codec       *)
(* (SerializedBaseOperator) and the DAG codec (SerializedDAG) with its     *)
(* version and schema gates.                                               *)
(*                                                                         *)
(* Python values are records tagged by their runtime type in field t.      *)
(* Times are counted in ticks; TicksPerSecond ticks make one second, so a  *)
(* float number of seconds is an integer number of ticks.                  *)
(***************************************************************************)
EXTENDS Integers, Sequences, FiniteSets, TLC

VARIABLES
    last,      \* the operation that ran last
    var,       \* the native value handed to encode (Absent for a foreign payload)
    wire,      \* the payload object the caller holds
    out,       \* what the last operation returned, or the exception it raised
    ndec,      \* how many decode calls this payload object has been through
    entered,   \* whether the last from_dict entered deserialize_dag
    schema,    \* SerializedDAG._json_schema: "set" or "none"
    accepted   \* the validator's verdict on the payload of the last to_dict

vars == <<last, var, wire, out, ndec, entered, schema, accepted>>

----------------------------------------------------------------------------
(* Bounds of the model.                                                    *)

\* nesting depth of the compound values drawn as inputs
MaxDepth == 2
\* resolution of the clock: ticks in one second
TicksPerSecond == 2

----------------------------------------------------------------------------
(* Python values.                                                          *)

PyNone == [t |-> "none"]
PyBool(b) == [t |-> "bool", b |-> b]
PyInt(i) == [t |-> "int", i |-> i]
\* a float, as a number of ticks (f / TicksPerSecond is its value)
PyFloat(f) == [t |-> "float", f |-> f]
PyStr(s) == [t |-> "str", s |-> s]
\* a member of an enum.IntEnum: an int instance with the member's value
PyEnum(name, v) == [t |-> "enum", name |-> name, value |-> v]
PyList(xs) == [t |-> "list", xs |-> xs]
PyTuple(xs) == [t |-> "tuple", tx |-> xs]
PySet(ms) == [t |-> "set", ms |-> ms]
\* a dict: its items in insertion order, each <<key, value>>
PyDict(items) == [t |-> "dict", items |-> items]
\* a datetime: ticks since the epoch and the attached zone ("naive" if none)
PyDatetime(ts, tz) == [t |-> "datetime", ts |-> ts, tz |-> tz]
PyTimedelta(d) == [t |-> "timedelta", d |-> d]
PyTimezone(name) == [t |-> "timezone", name |-> name]
\* dateutil weekday; n = 0 stands for n = None
PyWeekday(wd, n) == [t |-> "weekday", weekday |-> wd, n |-> n]
PyRelativedelta(days, months, weekday) ==
    [t |-> "relativedelta", days |-> days, months |-> months, weekday |-> weekday]
\* an object of no recognised type; str() of it gives disp, or raises
PyObject(disp, ok) == [t |-> "object", disp |-> disp, ok |-> ok]
\* a function; get_python_source gives src, or raises
PyCallable(src, ok) == [t |-> "callable", src |-> src, ok |-> ok]
\* logging.Logger, Connection or a class
PyLogger == [t |-> "logger"]
\* an exception leaving a call
Raise(exc) == [t |-> "raise", exc |-> exc]

IsRaise(r) == r.t = "raise"

FAILED == PyStr("serialization_failed")

SERIALIZER_VERSION == 1

\* airflow.serialization.enums.DagAttributeTypes
DAT_DAG == "dag"
DAT_OP == "operator"
DAT_DATETIME == "datetime"
DAT_TIMEDELTA == "timedelta"
DAT_TIMEZONE == "timezone"
DAT_RELATIVEDELTA == "relativedelta"
DAT_DICT == "dict"
DAT_SET == "set"
DAT_TUPLE == "tuple"

\* airflow.serialization.enums.Encoding
Encoding_TYPE == PyStr("__type")
Encoding_VAR == PyStr("__var")

----------------------------------------------------------------------------
(* dict operations.                                                        *)

Range(s) == {s[i] : i \in 1..Len(s)}

Keys(d) == {d.items[i][1] : i \in 1..Len(d.items)}

HasKey(d, k) == d.t = "dict" /\ k \in Keys(d)

\* d[k]
Get(d, k) == d.items[CHOOSE i \in 1..Len(d.items) : d.items[i][1] = k][2]

\* the items after d[k] = v
Put(items, k, v) ==
    IF \E i \in 1..Len(items) : items[i][1] = k
    THEN [i \in 1..Len(items) |-> IF items[i][1] = k THEN <<k, v>> ELSE items[i]]
    ELSE Append(items, <<k, v>>)

\* a set in iteration order
SetToSeq(S) == CHOOSE s \in [1..Cardinality(S) -> S] : Range(s) = S

----------------------------------------------------------------------------
(* Python built-ins the codec relies on.                                   *)

IntStr(i) == IF i \in 0..9 THEN <<"0", "1", "2", "3", "4", "5", "6", "7", "8", "9">>[i + 1]
             ELSE "int"

\* str(v): the display string, or the exception __str__ raises
Str(v) ==
    CASE v.t = "str" -> v
      [] v.t = "int" -> PyStr(IntStr(v.i))
      [] v.t = "none" -> PyStr("None")
      [] v.t = "bool" -> PyStr(IF v.b THEN "True" ELSE "False")
      [] v.t = "enum" -> PyStr(v.name)
      [] v.t = "object" -> IF v.ok THEN PyStr(v.disp) ELSE Raise("Exception")
      [] OTHER -> PyStr(v.t)

\* bool(v)
Truthy(v) ==
    CASE v.t = "none" -> FALSE
      [] v.t = "bool" -> v.b
      [] v.t = "int" -> v.i # 0
      [] v.t = "float" -> v.f # 0
      [] v.t = "str" -> v.s # ""
      [] v.t = "enum" -> v.value.i # 0
      [] v.t = "list" -> v.xs # <<>>
      [] v.t = "tuple" -> v.tx # <<>>
      [] v.t = "set" -> v.ms # {}
      [] v.t = "dict" -> v.items # <<>>
      [] v.t = "timedelta" -> v.d # 0
      [] OTHER -> TRUE

\* hash(v) is defined
Hashable(v) ==
    LET RECURSIVE H(_)
        H(x) == CASE x.t \in {"list", "set", "dict"} -> FALSE
                  [] x.t = "tuple" -> \A i \in 1..Len(x.tx) : H(x.tx[i])
                  [] OTHER -> TRUE
    IN  H(v)

\* The canonical form of v under Python's ==: numbers by value (True == 1 ==
\* 1.0, an IntEnum member equals its value), dicts and sets without order,
\* aware datetimes by instant, time zones by name, relativedelta weekdays
\* with n = None and n = 1 alike.
RECURSIVE Norm(_)
Norm(v) ==
    CASE v.t = "bool" -> [t |-> "num", f |-> IF v.b THEN TicksPerSecond ELSE 0]
      [] v.t = "int" -> [t |-> "num", f |-> v.i * TicksPerSecond]
      [] v.t = "float" -> [t |-> "num", f |-> v.f]
      [] v.t = "enum" -> Norm(v.value)
      [] v.t = "list" -> PyList([i \in 1..Len(v.xs) |-> Norm(v.xs[i])])
      [] v.t = "tuple" -> PyTuple([i \in 1..Len(v.tx) |-> Norm(v.tx[i])])
      [] v.t = "set" -> PySet({Norm(m) : m \in v.ms})
      [] v.t = "dict" ->
            [t |-> "dict", kv |-> {<<Norm(v.items[i][1]), Norm(v.items[i][2])>> :
                                      i \in 1..Len(v.items)}]
      [] v.t = "datetime" ->
            PyDatetime(v.ts, IF v.tz = "naive" THEN "naive" ELSE "aware")
      [] v.t = "relativedelta" ->
            IF v.weekday.t = "weekday"
            THEN [v EXCEPT !.weekday = PyWeekday(v.weekday.weekday,
                                                 IF v.weekday.n = 0 THEN 1 ELSE v.weekday.n)]
            ELSE v
      [] OTHER -> v

\* a == b
PyEq(a, b) == Norm(a) = Norm(b)

----------------------------------------------------------------------------
(* Entities.  An operator or a DAG is its attribute dictionary attrs, the  *)
(* set same of the attributes whose value is the very object the           *)
(* constructor's signature holds as default, and for an operator its class *)
(* and its DAG (PyNone without one; the DAG's own attributes otherwise).    *)

Operator(attrs, same, cls, module, dag) ==
    [t |-> "operator", attrs |-> attrs, same |-> same, cls |-> cls,
     module |-> module, dag |-> dag]

\* task_dict: the tasks in insertion order
Dag(attrs, same, task_dict) ==
    [t |-> "dag", attrs |-> attrs, same |-> same, task_dict |-> task_dict]

\* getattr(obj, key, None)
GetAttr(obj, key) == IF key \in DOMAIN obj.attrs THEN obj.attrs[key] ELSE PyNone

\* attrname.endswith("_date")
EndsWithDate(attrname) == attrname \in {"start_date", "end_date"}

\* BaseOperator.get_serialized_fields(), in iteration order
OpSerializedFields ==
    <<"task_id", "owner", "start_date", "end_date", "retry_delay", "params",
      "executor_config", "_downstream_task_ids", "subdag">>

\* DAG.get_serialized_fields(), in iteration order
DagSerializedFields ==
    <<"_dag_id", "fileloc", "start_date", "end_date", "schedule_interval",
      "default_args", "timezone", "_concurrency">>

\* SerializedBaseOperator._CONSTRUCTOR_PARAMS: the non-None defaults of
\* BaseOperator's signature
OpConstructorParams ==
    [owner |-> PyStr("Airflow"), retry_delay |-> PyTimedelta(300 * TicksPerSecond)]

\* SerializedDAG._CONSTRUCTOR_PARAMS: the non-None defaults of DAG's signature,
\* renamed by param_to_attr
DagConstructorParams ==
    [_concurrency |-> PyInt(16), schedule_interval |-> PyTimedelta(86400 * TicksPerSecond)]

OpDecoratedFields == {"executor_config"}

DagDecoratedFields == {"schedule_interval", "default_args"}

ConstructorParams(instance) ==
    IF instance.t = "operator" THEN OpConstructorParams ELSE DagConstructorParams

DecoratedFields(instance) ==
    IF instance.t = "operator" THEN OpDecoratedFields ELSE DagDecoratedFields

SerializedFields(instance) ==
    IF instance.t = "operator" THEN OpSerializedFields ELSE DagSerializedFields

----------------------------------------------------------------------------
(* Encoding.                                                               *)

_encode(x, type_) == PyDict(<< <<Encoding_VAR, x>>, <<Encoding_TYPE, PyStr(type_)>> >>)

_is_primitive(v) == v.t \in {"none", "int", "bool", "float", "str", "enum"}

\* is_default: value is the object _CONSTRUCTOR_PARAMS[attrname].default
_value_is_hardcoded_default(params, attrname, is_default) ==
    attrname \in DOMAIN params /\ is_default

Base_is_excluded(v, attrname, instance) ==
    \/ v = PyNone
    \/ v.t = "logger"
    \/ _value_is_hardcoded_default(ConstructorParams(instance), attrname,
                                   attrname \in instance.same)

\* var is dag_date or var == dag_date
SameAsDagDate(v, dag_date) == PyEq(v, dag_date)

Op_is_excluded(v, attrname, op) ==
    IF v # PyNone /\ op.dag # PyNone /\ EndsWithDate(attrname)
       /\ SameAsDagDate(v, GetAttr(op.dag, attrname))
    THEN TRUE
    ELSE IF attrname \in {"executor_config", "params"} /\ ~Truthy(v)
    THEN TRUE
    ELSE Base_is_excluded(v, attrname, op)

_is_excluded(v, attrname, instance) ==
    IF instance.t = "operator" THEN Op_is_excluded(v, attrname, instance)
    ELSE Base_is_excluded(v, attrname, instance)

\* the undecorated branch of serialize_to_json: a tagged value is stored as
\* its __var alone
Undecorate(value) ==
    IF value.t = "dict" /\ HasKey(value, Encoding_TYPE) THEN Get(value, Encoding_VAR)
    ELSE value

\* the relativedelta branch of _serialize
EncodeRelativedelta(v) ==
    LET months == IF v.months # 0 THEN << <<PyStr("months"), PyInt(v.months)>> >> ELSE <<>>
        days == IF v.days # 0 THEN << <<PyStr("days"), PyInt(v.days)>> >> ELSE <<>>
        weekday ==
            IF v.weekday = PyNone THEN <<>>
            ELSE IF v.weekday.n # 0
            THEN << <<PyStr("weekday"),
                      PyList(<<PyInt(v.weekday.weekday), PyInt(v.weekday.n)>>)>> >>
            ELSE << <<PyStr("weekday"), PyList(<<PyInt(v.weekday.weekday)>>)>> >>
    IN  _encode(PyDict(months \o days \o weekday), DAT_RELATIVEDELTA)

\* _serialize without its except clause: the exception reaches the caller
Recover_Propagate(r) == r

\* the except clause of _serialize
Recover(r) == IF IsRaise(r) THEN FAILED ELSE r

\* callable(var): str(get_python_source(var))
EncodeCallable(v) == IF v.ok THEN PyStr(v.src) ELSE Raise("Exception")

\* the dict branch of _serialize, given the comprehension's result
EncodeDict(d) == IF IsRaise(d) THEN d ELSE _encode(d, DAT_DICT)

\* what serialize_to_json stores for key, given the encoded value
Stored(obj, key, encoded) ==
    IF key \in DecoratedFields(obj) THEN encoded ELSE Undecorate(encoded)

RECURSIVE _serialize(_), SerializeDictItems(_, _), serialize_to_json(_, _, _),
          serialize_operator(_), serialize_dag(_)

\* {str(k): cls._serialize(v) for k, v in var.items()}
SerializeDictItems(items, acc) ==
    IF items = <<>> THEN PyDict(acc)
    ELSE LET k == Str(Head(items)[1])
         IN  IF IsRaise(k) THEN k
             ELSE SerializeDictItems(Tail(items),
                                     Put(acc, k, _serialize(Head(items)[2])))

_serialize(v) ==
    Recover(
        IF _is_primitive(v) THEN (IF v.t = "enum" THEN v.value ELSE v)
        ELSE IF v.t = "dict" THEN EncodeDict(SerializeDictItems(v.items, <<>>))
        ELSE IF v.t \in {"list", "set", "tuple"} THEN
            LET xs == IF v.t = "list" THEN v.xs
                      ELSE IF v.t = "set" THEN SetToSeq(v.ms) ELSE v.tx
                encoded == PyList([i \in 1..Len(xs) |-> _serialize(xs[i])])
            IN  IF v.t = "list" THEN encoded
                ELSE _encode(encoded, IF v.t = "set" THEN DAT_SET ELSE DAT_TUPLE)
        ELSE IF v.t = "dag" THEN serialize_dag(v)
        ELSE IF v.t = "operator" THEN serialize_operator(v)
        ELSE IF v.t = "datetime" THEN _encode(PyFloat(v.ts), DAT_DATETIME)
        ELSE IF v.t = "timedelta" THEN _encode(PyFloat(v.d), DAT_TIMEDELTA)
        ELSE IF v.t = "timezone" THEN _encode(PyStr(v.name), DAT_TIMEZONE)
        ELSE IF v.t = "relativedelta" THEN EncodeRelativedelta(v)
        ELSE IF v.t = "callable" THEN EncodeCallable(v)
        ELSE Str(v))

\* the loop of serialize_to_json over the keys still to visit
serialize_to_json(obj, keys, acc) ==
    IF keys = <<>> THEN acc
    ELSE serialize_to_json(obj, Tail(keys),
            IF _is_excluded(GetAttr(obj, Head(keys)), Head(keys), obj) THEN acc
            ELSE Put(acc, PyStr(Head(keys)),
                     Stored(obj, Head(keys), _serialize(GetAttr(obj, Head(keys))))))

\* the payload with the two keys of the operator's class
WithTaskType(serialize_op, op) ==
    PyDict(Put(Put(serialize_op, PyStr("_task_type"), PyStr(op.cls)),
               PyStr("_task_module"), PyStr(op.module)))

serialize_operator(op) ==
    WithTaskType(serialize_to_json(op, OpSerializedFields, <<>>), op)

serialize_dag(dag) ==
    PyDict(Put(serialize_to_json(dag, DagSerializedFields, <<>>), PyStr("tasks"),
               PyList([i \in 1..Len(dag.task_dict) |-> _serialize(dag.task_dict[i])])))

----------------------------------------------------------------------------
(* Decoding.  A decode call returns [ret, arg]: ret is the value returned  *)
(* or the exception raised, arg is the payload object as the call leaves   *)
(* it (the calls work on the caller's object, not on a copy).              *)

Result(ret, arg) == [ret |-> ret, arg |-> arg]

IsNumber(v) == v.t \in {"int", "float", "bool"}

\* a number of seconds as ticks
Ticks(v) ==
    CASE v.t = "int" -> v.i * TicksPerSecond
      [] v.t = "float" -> v.f
      [] v.t = "bool" -> IF v.b THEN TicksPerSecond ELSE 0

\* pendulum.from_timestamp
_deserialize_datetime(v) ==
    IF IsNumber(v) THEN PyDatetime(Ticks(v), "UTC") ELSE Raise("TypeError")

\* the number read as minutes: datetime.timedelta(minutes=var)
MakeTimedelta_Minutes(seconds) ==
    IF IsNumber(seconds) THEN PyTimedelta(60 * Ticks(seconds)) ELSE Raise("TypeError")

\* datetime.timedelta(seconds=var)
MakeTimedelta(seconds) ==
    IF IsNumber(seconds) THEN PyTimedelta(Ticks(seconds)) ELSE Raise("TypeError")

_deserialize_timedelta(seconds) == MakeTimedelta(seconds)

\* pendulum.timezone of the name of a zone
_deserialize_timezone(v) ==
    CASE v.t = "str" -> PyTimezone(v.s)

\* relativedelta.weekday(*w)
MakeWeekday(w) ==
    CASE w.t \in {"none", "bool", "int", "float", "weekday"} -> Raise("TypeError")
      [] w.t = "list" /\ Len(w.xs) \notin {1, 2} -> Raise("TypeError")
      [] w.t = "list" /\ Len(w.xs) \in {1, 2} /\ \A i \in 1..Len(w.xs) : w.xs[i].t = "int" ->
            IF Len(w.xs) = 2 /\ w.xs[2].i = 0 THEN Raise("ValueError")
            ELSE PyWeekday(w.xs[1].i, IF Len(w.xs) = 2 THEN w.xs[2].i ELSE 0)

\* relativedelta.relativedelta(**kw)
MakeRelativedelta(kw) ==
    IF /\ Keys(kw) \subseteq {PyStr("days"), PyStr("months"), PyStr("weekday")}
       /\ \A k \in Keys(kw) \ {PyStr("weekday")} : Get(kw, k).t = "int"
       /\ HasKey(kw, PyStr("weekday")) => Get(kw, PyStr("weekday")).t = "weekday"
    THEN PyRelativedelta(
            IF HasKey(kw, PyStr("days")) THEN Get(kw, PyStr("days")).i ELSE 0,
            IF HasKey(kw, PyStr("months")) THEN Get(kw, PyStr("months")).i ELSE 0,
            IF HasKey(kw, PyStr("weekday")) THEN Get(kw, PyStr("weekday")) ELSE PyNone)
    ELSE Raise("TypeError")

\* var['weekday'] = relativedelta.weekday(*var['weekday'])
StoreWeekday(v, weekday) == PyDict(Put(v.items, PyStr("weekday"), weekday))

\* relativedelta.relativedelta(**var) on the payload as it now is
BuildRelativedelta(v) == Result(MakeRelativedelta(v), v)

\* the relativedelta branch of _deserialize, given the weekday built
WithWeekday(v, weekday) ==
    IF IsRaise(weekday) THEN Result(weekday, v)
    ELSE BuildRelativedelta(StoreWeekday(v, weekday))

\* the relativedelta branch of _deserialize
DecodeRelativedelta(v) ==
    IF v.t # "dict" THEN Result(Raise("TypeError"), v)
    ELSE IF HasKey(v, PyStr("weekday"))
    THEN WithWeekday(v, MakeWeekday(Get(v, PyStr("weekday"))))
    ELSE BuildRelativedelta(v)

\* an unknown type_ decoded as None instead of raising
UnknownType_Ignored(type_) == PyNone

\* the last branch of _deserialize
UnknownType(type_) == Raise("TypeError")

\* set(v)
MakeSet(v) ==
    CASE v.t = "list" ->
            IF \A i \in 1..Len(v.xs) : Hashable(v.xs[i]) THEN PySet(Range(v.xs))
            ELSE Raise("TypeError")
      [] v.t = "set" -> v
      [] v.t = "tuple" -> PySet(Range(v.tx))
      [] v.t \in {"none", "int", "float", "bool"} -> Raise("TypeError")

\* setattr(obj, k, v)
SetAttr(obj, k, v) == [obj EXCEPT !.attrs = (k :> v) @@ obj.attrs, !.same = @ \ {k}]

\* airflow.plugins_manager.operator_extra_links: each link with the classes
\* (name, module) it applies to
OperatorExtraLinks ==
    {[name |-> "docs", operators |-> {[name |-> "BashOperator", module |-> "airflow.bash"]}]}

\* SerializedBaseOperator(task_id=task_id): every argument but task_id at the
\* default of BaseOperator's signature
NewOperator(task_id) ==
    Operator([task_id |-> task_id,
              owner |-> OpConstructorParams.owner,
              start_date |-> PyNone,
              end_date |-> PyNone,
              retry_delay |-> OpConstructorParams.retry_delay,
              params |-> PyDict(<<>>),
              executor_config |-> PyDict(<<>>),
              _downstream_task_ids |-> PySet({}),
              _upstream_task_ids |-> PySet({}),
              _task_type |-> PyStr("BaseOperator"),
              operator_extra_links |-> PyList(<<>>)],
             DOMAIN OpConstructorParams,
             "SerializedBaseOperator", "airflow.serialization.serialized_objects", PyNone)

\* SerializedDAG(dag_id=dag_id): every argument but dag_id at the default of
\* DAG's signature
NewDag(dag_id) ==
    Dag([_dag_id |-> dag_id,
         fileloc |-> PyStr("serialized_objects.py"),
         start_date |-> PyNone,
         end_date |-> PyNone,
         schedule_interval |-> DagConstructorParams.schedule_interval,
         default_args |-> PyDict(<<>>),
         timezone |-> PyTimezone("UTC"),
         _concurrency |-> DagConstructorParams._concurrency],
        DOMAIN DagConstructorParams, <<>>)

\* the links of the plugin registry that apply to the encoded operator, or the
\* KeyError of the lookup of its class
ExtraLinksFromPlugin(encoded_op) ==
    IF \E ope \in OperatorExtraLinks : ope.operators # {}
       /\ ~HasKey(encoded_op, PyStr("_task_type"))
    THEN Raise("KeyError")
    ELSE IF /\ \E ope \in OperatorExtraLinks : \E o \in ope.operators :
                   PyStr(o.name) = Get(encoded_op, PyStr("_task_type"))
            /\ ~HasKey(encoded_op, PyStr("_task_module"))
    THEN Raise("KeyError")
    ELSE PyList(SetToSeq({PyStr(ope.name) : ope \in
                  {l \in OperatorExtraLinks : \E o \in l.operators :
                      /\ PyStr(o.name) = Get(encoded_op, PyStr("_task_type"))
                      /\ PyStr(o.module) = Get(encoded_op, PyStr("_task_module"))}}))

\* the keys to set None without "- cls._CONSTRUCTOR_PARAMS.keys()"
KeysToSetNone_Defaults(obj, encoded) ==
    {k \in Range(SerializedFields(obj)) : PyStr(k) \notin Keys(encoded)}

\* the fields set to None after the payload is consumed
KeysToSetNone(obj, encoded) ==
    {k \in Range(SerializedFields(obj)) :
        PyStr(k) \notin Keys(encoded) /\ k \notin DOMAIN ConstructorParams(obj)}

\* for k in keys: setattr(obj, k, None)
SetNone(obj, keys) ==
    [obj EXCEPT !.attrs = [k \in keys |-> PyNone] @@ obj.attrs, !.same = @ \ keys]

\* the DAG as a task or a sub-DAG refers to it
DagRef(dag) == [t |-> "dagref", attrs |-> dag.attrs]

\* the loop over date_attr left out
InheritDates_Skipped(task, dag) == task

\* for date_attr in ["start_date", "end_date"]: a None date of the task is set
\* to the DAG's
InheritDates(task, dag) ==
    [task EXCEPT !.attrs =
        [k \in {d \in {"start_date", "end_date"} : task.attrs[d] = PyNone}
            |-> GetAttr(dag, k)] @@ task.attrs]

\* a sub-DAG of the task gets parent_dag and is_subdag
AdoptSubdag(task, dag) ==
    IF task.attrs.subdag # PyNone
    THEN [task EXCEPT !.attrs.subdag =
            [@ EXCEPT !.attrs = [parent_dag |-> DagRef(dag), is_subdag |-> PyBool(TRUE)]
                                @@ @]]
    ELSE task

\* dag.task_dict[task_id]._upstream_task_ids.add(task_id), run for the
\* task_id of serializable_task.downstream_task_ids
LinkUpstream(task_dict, serializable_task, task_id) ==
    [i \in 1..Len(task_dict) |->
        IF task_dict[i].attrs.task_id = task_id
        THEN [task_dict[i] EXCEPT !.attrs._upstream_task_ids = PySet(@.ms \cup {task_id})]
        ELSE task_dict[i]]

RECURSIVE LinkAll(_, _, _), PostProcess(_, _)

\* the inner loop over serializable_task.downstream_task_ids
LinkAll(task_dict, serializable_task, ids) ==
    IF ids = <<>> THEN task_dict
    ELSE LinkAll(LinkUpstream(task_dict, serializable_task, Head(ids)),
                 serializable_task, Tail(ids))

\* the i-th task with its DAG set, its dates inherited, its sub-DAG adopted
Adopted(dag, i) ==
    AdoptSubdag(InheritDates([dag.task_dict[i] EXCEPT !.dag = DagRef(dag)], dag), dag)

\* the body of the loop for the i-th task, given the task as adopted
LinkTask(dag, i, task) ==
    IF task.attrs._downstream_task_ids.t # "set" THEN Raise("TypeError")
    ELSE IF \E id \in task.attrs._downstream_task_ids.ms :
               \A j \in 1..Len(dag.task_dict) : dag.task_dict[j].attrs.task_id # id
    THEN Raise("KeyError")
    ELSE [dag EXCEPT !.task_dict =
            LinkAll([dag.task_dict EXCEPT ![i] = task], task,
                    SetToSeq(task.attrs._downstream_task_ids.ms))]

\* the loop over dag.task_dict.values() that ends deserialize_dag, from the
\* i-th task on: the DAG, or the exception raised
PostProcess(dag, i) ==
    IF IsRaise(dag) THEN dag
    ELSE IF i > Len(dag.task_dict) THEN dag
    ELSE PostProcess(LinkTask(dag, i, Adopted(dag, i)), i + 1)

\* the state of a loop of a decoder: what it has built, the elements of the
\* payload as the calls left them, and the exception that ended it
Start(acc) == [acc |-> acc, args |-> <<>>, exc |-> PyNone]

\* the tasks decoded so far with the operator op stored under its task_id
PutTask(tasks, op) ==
    IF \E i \in 1..Len(tasks) : tasks[i].attrs.task_id = op.attrs.task_id
    THEN [i \in 1..Len(tasks) |->
             IF tasks[i].attrs.task_id = op.attrs.task_id THEN op ELSE tasks[i]]
    ELSE Append(tasks, op)

\* what the loop of the given kind builds from item decoded as ret
Accumulate(kind, acc, item, ret) ==
    CASE kind \in {"list", "set"} -> Append(acc, ret)
      [] kind = "dict" -> Append(acc, <<item[1], ret>>)
      [] kind = "tasks" -> PutTask(acc, ret)
      [] kind = "operator" -> SetAttr(acc, item[1].s, ret)
      [] kind = "dag" -> IF item[1].s = "tasks" THEN [acc EXCEPT !.task_dict = ret.tasks]
                         ELSE SetAttr(acc, item[1].s, ret)

\* the loop's state after item was decoded with result r
Advance(kind, st, item, r) ==
    LET arg == IF kind \in {"list", "set", "tasks"} THEN r.arg ELSE <<item[1], r.arg>>
        \* an element that cannot be hashed ends a set comprehension
        ret == IF kind = "set" /\ ~IsRaise(r.ret) /\ ~Hashable(r.ret)
               THEN Raise("TypeError") ELSE r.ret
    IN  IF IsRaise(ret)
        THEN [st EXCEPT !.exc = ret, !.args = Append(@, arg)]
        ELSE [st EXCEPT !.acc = Accumulate(kind, @, item, ret), !.args = Append(@, arg)]

\* a loop over a list payload as a call result: the list built, or the exception
AsList(st) == Result(IF st.exc # PyNone THEN st.exc ELSE PyList(st.acc), PyList(st.args))

AsDict(st) == Result(IF st.exc # PyNone THEN st.exc ELSE PyDict(st.acc), PyDict(st.args))

\* {cls._deserialize(v) for v in var} and tuple([cls._deserialize(v) for v in
\* var]), given the loop over var
Collected(type_, st) ==
    Result(IF st.exc # PyNone THEN st.exc
           ELSE IF type_ = PyStr(DAT_SET) THEN PySet(Range(st.acc)) ELSE PyTuple(st.acc),
           PyList(st.args))

AsTasks(st) ==
    Result(IF st.exc # PyNone THEN st.exc ELSE [t |-> "task_dict", tasks |-> st.acc],
           PyList(st.args))

\* the end of deserialize_operator and of deserialize_dag before its last loop
Finish(encoded, st) ==
    Result(IF st.exc # PyNone THEN st.exc
           ELSE SetNone(st.acc, KeysToSetNone(st.acc, encoded)),
           PyDict(st.args))

\* setattr(dag, 'full_filepath', dag.fileloc) and the loop over the tasks
Link(r) ==
    Result(IF IsRaise(r.ret) THEN r.ret
           ELSE PostProcess(SetAttr(r.ret, "full_filepath", GetAttr(r.ret, "fileloc")), 1),
           r.arg)

\* encoded_var with its __var as the call left it
Repack(encoded_var, r) ==
    Result(r.ret, PyDict(Put(encoded_var.items, Encoding_VAR, r.arg)))

RECURSIVE _deserialize(_), Loop(_, _, _), deserialize_operator(_), deserialize_dag(_)

\* what deserialize_operator assigns for the item k, v of the payload
DecodeOpField(k, v) ==
    IF k = "_downstream_task_ids" THEN Result(MakeSet(v), v)
    ELSE IF k = "subdag" THEN deserialize_dag(v)
    ELSE IF k \in {"retry_delay", "execution_timeout"}
    THEN Result(_deserialize_timedelta(v), v)
    ELSE IF EndsWithDate(k) THEN Result(_deserialize_datetime(v), v)
    ELSE IF k \in OpDecoratedFields \/ k \notin Range(OpSerializedFields)
    THEN _deserialize(v)
    ELSE Result(v, v)

\* what deserialize_dag assigns for the item k, v of the payload
DecodeDagField(k, v) ==
    IF k = "_downstream_task_ids" THEN Result(MakeSet(v), v)
    ELSE IF k = "tasks" THEN
        IF v.t # "list" THEN Result(Raise("TypeError"), v)
        ELSE AsTasks(Loop("tasks", v.xs, Start(<<>>)))
    ELSE IF k = "timezone" THEN Result(_deserialize_timezone(v), v)
    ELSE IF k \in {"retry_delay", "execution_timeout"}
    THEN Result(_deserialize_timedelta(v), v)
    ELSE IF EndsWithDate(k) THEN Result(_deserialize_datetime(v), v)
    ELSE IF k \in DagDecoratedFields THEN _deserialize(v)
    ELSE Result(v, v)

\* the decoding of one item in the loop of the given kind:
\*   "list"      [cls._deserialize(v) for v in var]
\*   "set"       {cls._deserialize(v) for v in var}
\*   "dict"      {k: cls._deserialize(v) for k, v in var.items()}
\*   "tasks"     {task["task_id"]: deserialize_operator(task) for task in v}
\*   "operator"  for k, v in encoded_op.items()
\*   "dag"       for k, v in encoded_dag.items()
DecodeItem(kind, item) ==
    CASE kind \in {"list", "set", "dict"} ->
            _deserialize(IF kind = "dict" THEN item[2] ELSE item)
      [] kind = "tasks" -> deserialize_operator(item)
      [] kind = "operator" -> DecodeOpField(item[1].s, item[2])
      [] kind = "dag" -> DecodeDagField(item[1].s, item[2])

\* the loop over the items still to decode; an exception leaves them untouched
Loop(kind, rest, st) ==
    IF st.exc # PyNone THEN [st EXCEPT !.args = @ \o rest]
    ELSE IF rest = <<>> THEN st
    ELSE Loop(kind, Tail(rest), Advance(kind, st, Head(rest), DecodeItem(kind, Head(rest))))

\* the dispatch of _deserialize on type_, with var = encoded_var[Encoding.VAR]
DecodeTagged(type_, v) ==
    IF type_ = PyStr(DAT_DICT) THEN
        IF v.t # "dict" THEN Result(Raise("AttributeError"), v)
        ELSE AsDict(Loop("dict", v.items, Start(<<>>)))
    ELSE IF type_ = PyStr(DAT_DAG) THEN deserialize_dag(v)
    ELSE IF type_ = PyStr(DAT_OP) THEN deserialize_operator(v)
    ELSE IF type_ = PyStr(DAT_DATETIME) THEN Result(_deserialize_datetime(v), v)
    ELSE IF type_ = PyStr(DAT_TIMEDELTA) THEN Result(MakeTimedelta(v), v)
    ELSE IF type_ = PyStr(DAT_TIMEZONE) THEN Result(_deserialize_timezone(v), v)
    ELSE IF type_ = PyStr(DAT_RELATIVEDELTA) THEN DecodeRelativedelta(v)
    ELSE IF type_ \in {PyStr(DAT_SET), PyStr(DAT_TUPLE)} THEN
        CASE v.t \in {"none", "bool", "int", "float"} -> Result(Raise("TypeError"), v)
          [] v.t = "list" ->
                Collected(type_, Loop(IF type_ = PyStr(DAT_SET) THEN "set" ELSE "list",
                                      v.xs, Start(<<>>)))
    ELSE Result(UnknownType(type_), v)

_deserialize(encoded_var) ==
    IF _is_primitive(encoded_var) THEN Result(encoded_var, encoded_var)
    ELSE IF encoded_var.t = "list" THEN AsList(Loop("list", encoded_var.xs, Start(<<>>)))
    ELSE IF encoded_var.t # "dict" THEN Result(Raise("AssertionError"), encoded_var)
    ELSE IF ~HasKey(encoded_var, Encoding_VAR) \/ ~HasKey(encoded_var, Encoding_TYPE)
    THEN Result(Raise("KeyError"), encoded_var)
    ELSE Repack(encoded_var,
                DecodeTagged(Get(encoded_var, Encoding_TYPE), Get(encoded_var, Encoding_VAR)))

\* deserialize_operator once the links of the plugin registry are found
OperatorWithLinks(encoded_op, links) ==
    IF IsRaise(links) THEN Result(links, encoded_op)
    ELSE Finish(encoded_op,
                Loop("operator", encoded_op.items,
                     Start(SetAttr(NewOperator(Get(encoded_op, PyStr("task_id"))),
                                   "operator_extra_links", links))))

deserialize_operator(encoded_op) ==
    IF encoded_op.t # "dict" THEN Result(Raise("TypeError"), encoded_op)
    ELSE IF ~HasKey(encoded_op, PyStr("task_id")) THEN Result(Raise("KeyError"), encoded_op)
    ELSE OperatorWithLinks(encoded_op, ExtraLinksFromPlugin(encoded_op))

deserialize_dag(encoded_dag) ==
    IF encoded_dag.t # "dict" THEN Result(Raise("TypeError"), encoded_dag)
    ELSE IF ~HasKey(encoded_dag, PyStr("_dag_id")) THEN Result(Raise("KeyError"), encoded_dag)
    ELSE Link(Finish(encoded_dag,
                     Loop("dag", encoded_dag.items,
                          Start(NewDag(Get(encoded_dag, PyStr("_dag_id")))))))

----------------------------------------------------------------------------
(* The values and payloads handed to the value codec.                      *)

\* a time with a whole and a fractional part of a second
SomeTicks == TicksPerSecond + 1

Scalars ==
    {PyNone, PyBool(TRUE), PyInt(1), PyFloat(SomeTicks), PyStr("a"),
     PyEnum("Color.RED", PyInt(1))}

Temporals ==
    {PyDatetime(SomeTicks, "UTC"), PyDatetime(SomeTicks, "Europe/Paris"),
     PyDatetime(SomeTicks, "naive"), PyTimedelta(SomeTicks), PyTimezone("UTC"),
     PyRelativedelta(1, 0, PyNone), PyRelativedelta(0, 0, PyWeekday(4, 0)),
     PyRelativedelta(0, 1, PyWeekday(4, 2))}

Opaques ==
    {PyObject("<object>", TRUE), PyObject("", FALSE),
     PyCallable("def f(): pass", TRUE), PyCallable("", FALSE)}

EmptyContainers == {PyList(<<>>), PyTuple(<<>>), PySet({}), PyDict(<<>>)}

\* an operator outside any DAG, one of its fields unencodable
LoneOperator ==
    Operator([task_id |-> PyStr("t"), owner |-> PyObject("", FALSE),
              start_date |-> PyDatetime(SomeTicks, "UTC"),
              _downstream_task_ids |-> PySet({})],
             {}, "BashOperator", "airflow.bash", PyNone)

\* a DAG of one task
SmallDag ==
    LET attrs == [_dag_id |-> PyStr("g"), start_date |-> PyDatetime(SomeTicks, "UTC")]
    IN  Dag(attrs, {},
            <<Operator([task_id |-> PyStr("t"), start_date |-> PyDatetime(SomeTicks, "UTC"),
                        _downstream_task_ids |-> PySet({})],
                       {}, "BashOperator", "airflow.bash",
                       [t |-> "dagref", attrs |-> attrs])>>)

Entities == {LoneOperator, SmallDag}

\* the containers holding x, alone or beside other elements
Wrap(x) ==
    {PyList(<<x>>), PyList(<<x, PyInt(1)>>), PyTuple(<<x>>), PyTuple(<<PyStr("a"), x>>),
     PyDict(<< <<PyStr("k"), x>> >>), PyDict(<< <<PyInt(1), x>> >>),
     PyDict(<< <<PyInt(1), PyInt(1)>>, <<PyStr("1"), x>> >>),
     PyDict(<< <<PyObject("", FALSE), x>> >>)}
    \cup (IF Hashable(x) THEN {PySet({x}), PySet({x, PyInt(2)})} ELSE {})

RECURSIVE ValuesOfDepth(_)
ValuesOfDepth(d) ==
    IF d = 0 THEN Scalars \cup Temporals \cup Opaques \cup EmptyContainers \cup Entities
    ELSE LET inner == ValuesOfDepth(d - 1)
         IN  inner \cup UNION {Wrap(x) : x \in inner}

Values == ValuesOfDepth(MaxDepth)

\* payloads that no encode of the model's values produces
ForeignLeaves ==
    {_encode(PyInt(1), "not_a_real_tag"),
     _encode(PyList(<<>>), "frozenset"),
     PyDict(<< <<Encoding_TYPE, PyStr(DAT_DICT)>> >>),
     PySet({PyInt(1)}),
     _encode(PyStr("a"), DAT_DATETIME),
     _encode(PyInt(90), DAT_TIMEDELTA),
     _encode(PyList(<<PyInt(1), PyInt(2), PyInt(3)>>), DAT_SET),
     _encode(PyDict(<< <<PyStr("weekday"), PyList(<<PyInt(4)>>)>>,
                       <<PyStr("days"), PyInt(1)>> >>), DAT_RELATIVEDELTA)}

\* the payloads holding the payload w inside an array, mapping, set or tuple
WrapWire(w) ==
    {PyList(<<w>>), PyList(<<PyInt(1), w>>),
     _encode(PyDict(<< <<PyStr("k"), w>> >>), DAT_DICT),
     _encode(PyList(<<w>>), DAT_SET),
     _encode(PyList(<<PyStr("a"), w>>), DAT_TUPLE)}

RECURSIVE ForeignOfDepth(_)
ForeignOfDepth(d) ==
    IF d = 0 THEN ForeignLeaves
    ELSE LET inner == ForeignOfDepth(d - 1)
         IN  inner \cup UNION {WrapWire(w) : w \in inner}

ForeignPayloads == ForeignOfDepth(MaxDepth)

----------------------------------------------------------------------------
(* The value codec as a state machine: a value is encoded, or a payload    *)
(* arrives from elsewhere, and the payload the caller holds is decoded,    *)
(* possibly more than once.                                                *)

\* decode calls on one payload object
MaxDecodes == 2

\* var when the payload was not encoded by the caller
Absent == [t |-> "absent"]

InitCommon ==
    /\ last = "init"
    /\ wire = PyNone
    /\ out = PyNone
    /\ ndec = 0
    /\ entered = FALSE
    /\ schema = "set"
    /\ accepted = FALSE

\* the call returns ret (or raises it) and leaves the caller's payload as arg
Returns(r) == out' = r.ret /\ wire' = r.arg

InitValue == InitCommon /\ var \in Values

\* wire = BaseSerialization._serialize(var)
Serialize ==
    /\ last = "init"
    /\ wire' = _serialize(var)
    /\ out' = wire'
    /\ last' = "_serialize"
    /\ ndec' = 0
    /\ UNCHANGED <<var, entered, schema, accepted>>

\* a payload produced elsewhere is handed to the caller
Receive ==
    /\ last = "init"
    /\ var = PyNone
    /\ \E w \in ForeignPayloads : wire' = w
    /\ var' = Absent
    /\ last' = "receive"
    /\ ndec' = 0
    /\ UNCHANGED <<out, entered, schema, accepted>>

\* out = BaseSerialization._deserialize(wire)
Deserialize ==
    /\ last \in {"_serialize", "receive", "_deserialize"}
    /\ ndec < MaxDecodes
    /\ Returns(_deserialize(wire))
    /\ last' = "_deserialize"
    /\ ndec' = ndec + 1
    /\ UNCHANGED <<var, entered, schema, accepted>>

NextValue == Serialize \/ Receive \/ Deserialize

SpecValue == InitValue /\ [][NextValue]_vars

----------------------------------------------------------------------------
(* Properties of the value codec.                                          *)

\* v is built of the value types the codec knows, with no function, no object
\* of another type and no operator or DAG in it
RECURSIVE Supported(_)
Supported(v) ==
    CASE v.t \in {"none", "bool", "int", "float", "str", "enum", "datetime",
                  "timedelta", "timezone", "relativedelta"} -> TRUE
      [] v.t = "list" -> \A i \in 1..Len(v.xs) : Supported(v.xs[i])
      [] v.t = "tuple" -> \A i \in 1..Len(v.tx) : Supported(v.tx[i])
      [] v.t = "set" -> \A m \in v.ms : Supported(m)
      [] v.t = "dict" -> \A i \in 1..Len(v.items) :
                            Supported(v.items[i][1]) /\ Supported(v.items[i][2])
      [] OTHER -> FALSE

\* every key of every mapping in v is a string, and every datetime in v
\* carries a time zone
RECURSIVE TextKeysAwareTimes(_)
TextKeysAwareTimes(v) ==
    CASE v.t = "datetime" -> v.tz # "naive"
      [] v.t = "list" -> \A i \in 1..Len(v.xs) : TextKeysAwareTimes(v.xs[i])
      [] v.t = "tuple" -> \A i \in 1..Len(v.tx) : TextKeysAwareTimes(v.tx[i])
      [] v.t = "set" -> \A m \in v.ms : TextKeysAwareTimes(m)
      [] v.t = "dict" -> \A i \in 1..Len(v.items) :
                            v.items[i][1].t = "str" /\ TextKeysAwareTimes(v.items[i][2])
      [] OTHER -> TRUE

\* v with every timestamp and duration cut to whole seconds
RECURSIVE WholeSeconds(_)
WholeSeconds(v) ==
    CASE v.t = "datetime" -> [v EXCEPT !.ts = @ \div TicksPerSecond]
      [] v.t = "timedelta" -> [v EXCEPT !.d = @ \div TicksPerSecond]
      [] v.t = "list" -> PyList([i \in 1..Len(v.xs) |-> WholeSeconds(v.xs[i])])
      [] v.t = "tuple" -> PyTuple([i \in 1..Len(v.tx) |-> WholeSeconds(v.tx[i])])
      [] v.t = "set" -> PySet({WholeSeconds(m) : m \in v.ms})
      [] v.t = "dict" ->
            PyDict([i \in 1..Len(v.items) |->
                       <<WholeSeconds(v.items[i][1]), WholeSeconds(v.items[i][2])>>])
      [] OTHER -> v

\* a == b, timestamps and durations compared to the second
EqualToTheSecond(a, b) == PyEq(WholeSeconds(a), WholeSeconds(b))

\* the state after _deserialize(_serialize(var))
RoundTripped == last = "_deserialize" /\ ndec = 1 /\ var # Absent

ClosedTagSet ==
    {PyStr(DAT_DICT), PyStr(DAT_DAG), PyStr(DAT_OP), PyStr(DAT_DATETIME),
     PyStr(DAT_TIMEDELTA), PyStr(DAT_TIMEZONE), PyStr(DAT_RELATIVEDELTA),
     PyStr(DAT_SET), PyStr(DAT_TUPLE)}

IsEnvelope(w) == w.t = "dict" /\ Keys(w) = {Encoding_VAR, Encoding_TYPE}

\* w is an envelope of a kind outside the closed tag set, or holds one inside
\* an array, mapping, set or tuple
RECURSIVE HoldsUnknownTag(_)
HoldsUnknownTag(w) ==
    CASE w.t = "list" -> \E i \in 1..Len(w.xs) : HoldsUnknownTag(w.xs[i])
      [] IsEnvelope(w) ->
            LET kind == Get(w, Encoding_TYPE)
                payload == Get(w, Encoding_VAR)
            IN  \/ kind \notin ClosedTagSet
                \/ /\ kind = PyStr(DAT_DICT)
                   /\ payload.t = "dict"
                   /\ \E i \in 1..Len(payload.items) : HoldsUnknownTag(payload.items[i][2])
                \/ /\ kind \in {PyStr(DAT_SET), PyStr(DAT_TUPLE)}
                   /\ payload.t = "list"
                   /\ \E i \in 1..Len(payload.xs) : HoldsUnknownTag(payload.xs[i])
      [] OTHER -> FALSE

\* C4: _deserialize of a payload that is, or holds inside an array, mapping,
\* set or tuple, an envelope of a kind outside the closed tag set raises and
\* returns no value.
C4_UnknownTagRejected ==
    (last = "_deserialize" /\ HoldsUnknownTag(wire)) => IsRaise(out)

C4_Witness ==
    /\ last = "_deserialize"
    /\ wire = _encode(PyList(<<PyStr("a"),
                               PyList(<<PyInt(1), _encode(PyInt(1), "not_a_real_tag")>>)>>),
                      DAT_TUPLE)
    /\ out = Raise("TypeError")

\* no exception anywhere inside the payload w
RECURSIVE NoRaiseInside(_)
NoRaiseInside(w) ==
    CASE w.t = "raise" -> FALSE
      [] w.t = "list" -> \A i \in 1..Len(w.xs) : NoRaiseInside(w.xs[i])
      [] w.t = "dict" -> \A i \in 1..Len(w.items) :
                            NoRaiseInside(w.items[i][1]) /\ NoRaiseInside(w.items[i][2])
      [] OTHER -> TRUE

\* converting v raises: str() of it or the capture of its source fails
Unencodable(v) == v.t \in {"object", "callable"} /\ ~v.ok

\* element x of a container is encoded as e: the sentinel when x is
\* unencodable, x itself when x is a JSON primitive
ElementEncoded(x, e) ==
    /\ Unencodable(x) => e = FAILED
    /\ x.t \in {"none", "bool", "int", "float", "str"} => e = x

\* C7: _serialize returns a payload and raises nothing; an element of an
\* array, tuple, set or mapping, or a field of an operator or of a task of a
\* DAG, whose conversion raises is replaced by 'serialization_failed' while
\* the elements beside it are encoded as usual.  (A mapping with a key whose
\* str() raises is replaced as a whole.)
C7_EncodeNeverRaises ==
    last = "_serialize" =>
        /\ NoRaiseInside(out)
        /\ var.t = "list" =>
              /\ out.t = "list" /\ Len(out.xs) = Len(var.xs)
              /\ \A i \in 1..Len(var.xs) : ElementEncoded(var.xs[i], out.xs[i])
        /\ var.t = "tuple" =>
              /\ IsEnvelope(out) /\ Len(Get(out, Encoding_VAR).xs) = Len(var.tx)
              /\ \A i \in 1..Len(var.tx) :
                    ElementEncoded(var.tx[i], Get(out, Encoding_VAR).xs[i])
        /\ (var.t = "dict" /\ \A k \in Keys(var) : k.t = "str") =>
              /\ IsEnvelope(out) /\ Keys(Get(out, Encoding_VAR)) = Keys(var)
              /\ \A k \in Keys(var) :
                    ElementEncoded(Get(var, k), Get(Get(out, Encoding_VAR), k))
        /\ (var.t = "dict" /\ \E k \in Keys(var) : Unencodable(k)) => out = FAILED
        /\ var.t = "set" =>
              /\ IsEnvelope(out) /\ Len(Get(out, Encoding_VAR).xs) = Cardinality(var.ms)
              /\ \A m \in var.ms : \E i \in 1..Cardinality(var.ms) :
                    ElementEncoded(m, Get(out, Encoding_VAR).xs[i])
        /\ var.t = "operator" =>
              /\ out.t = "dict"
              /\ \A f \in {"task_id", "owner"} :
                    /\ HasKey(out, PyStr(f))
                    /\ ElementEncoded(var.attrs[f], Get(out, PyStr(f)))
        /\ var.t = "dag" =>
              /\ out.t = "dict"
              /\ Len(Get(out, PyStr("tasks")).xs) = Len(var.task_dict)
              /\ \A i \in 1..Len(var.task_dict) :
                    ElementEncoded(var.task_dict[i].attrs.task_id,
                                   Get(Get(out, PyStr("tasks")).xs[i], PyStr("task_id")))

C7_Witness ==
    /\ last = "_serialize"
    /\ var = PyList(<<PyTuple(<<PyStr("a"), PyObject("", FALSE)>>), PyInt(1)>>)
    /\ out = PyList(<<_encode(PyList(<<PyStr("a"), FAILED>>), DAT_TUPLE), PyInt(1)>>)

\* w is a JSON primitive, an array, or an envelope of a kind of the closed set
IsWireValue(w) ==
    \/ w.t \in {"none", "bool", "int", "float", "str", "list"}
    \/ IsEnvelope(w) /\ Get(w, Encoding_TYPE) \in ClosedTagSet

\* C9 as stated: whatever _serialize returns is a JSON primitive, an array or
\* a two-field envelope of a kind of the closed tag set, a DAG and an operator
\* included.
C9_EncodeGivesEnvelope == last = "_serialize" => IsWireValue(out)

\* C10 as stated: a decode call leaves its payload as it was, and a second
\* decode of the same payload object returns what the first returned.
C10_DecodeLeavesPayload ==
    [][/\ last' = "_deserialize" => wire' = wire
       /\ (last = "_deserialize" /\ last' = "_deserialize") => out' = out]_vars

----------------------------------------------------------------------------
(* The DAGs handed to the DAG codec.                                       *)

\* tasks in a DAG
MaxTasks == 2

TaskIds == <<"a", "b", "c", "d">>

Date1 == PyDatetime(SomeTicks, "UTC")
\* the instant of Date1 in another zone
Date1Paris == PyDatetime(SomeTicks, "Europe/Paris")
Date2 == PyDatetime(SomeTicks + TicksPerSecond, "UTC")

\* a task as its constructor leaves it
PlainTask(id) ==
    [NewOperator(PyStr(id)) EXCEPT !.cls = "BashOperator", !.module = "airflow.bash"]

\* the task with some attributes assigned after construction
TaskVariants(id) ==
    {SetAttr(SetAttr(PlainTask(id), "start_date", sd), "end_date", ed) :
        sd \in {PyNone, Date1, Date1Paris, Date2}, ed \in {PyNone, Date2}}
    \cup {SetAttr(PlainTask(id), "owner", o) : o \in {PyStr("Airflow"), PyStr("bob")}}
    \cup {SetAttr(PlainTask(id), "retry_delay", rd) :
             rd \in {PyTimedelta(300 * TicksPerSecond), PyTimedelta(SomeTicks)}}
    \cup {SetAttr(SetAttr(PlainTask(id), "params", PyDict(<< <<PyStr("k"), PyInt(1)>> >>)),
                  "executor_config", PyDict(<< <<PyStr("cpu"), PyObject("", FALSE)>> >>))}
    \cup {SetAttr(SetAttr(PlainTask(id), "params", PyDict(<< <<PyStr("k"), nested>> >>)),
                  "executor_config", PyDict(<< <<PyStr("cpu"), nested>> >>)) :
             nested \in {PySet({PyInt(1)}), PyTuple(<<PyStr("a")>>),
                         PyDict(<< <<PyStr("n"), PyInt(1)>> >>), PyTimedelta(SomeTicks),
                         PyList(<<Date1>>)}}

\* a DAG without tasks
DagShells ==
    {SetAttr(SetAttr(SetAttr(shell, "start_date", dates[1]), "end_date", dates[2]),
             "default_args", PyDict(<< <<PyStr("owner"), PyStr("bob")>> >>)) :
        shell \in {NewDag(PyStr("g1")),
                   SetAttr(NewDag(PyStr("g1")), "schedule_interval",
                           PyRelativedelta(0, 0, PyWeekday(4, 2)))},
        dates \in {<<PyNone, PyNone>>, <<Date1, PyNone>>, <<Date1, Date2>>}}

\* the DAG shell holding the tasks, each task referring to it
MakeDag(shell, tasks) ==
    [shell EXCEPT !.task_dict =
        [i \in 1..Len(tasks) |-> [tasks[i] EXCEPT !.dag = DagRef(shell)]]]

\* task i with the tasks ids downstream of it
WithDownstream(task, ids) ==
    SetAttr(task, "_downstream_task_ids", PySet({PyStr(id) : id \in ids}))

\* DAGs of n plain tasks with every choice of edges between them
EdgeDags(n) ==
    LET ids == {TaskIds[i] : i \in 1..n}
    IN  {MakeDag(shell, [i \in 1..n |-> WithDownstream(PlainTask(TaskIds[i]), edges[i])]) :
            shell \in {NewDag(PyStr("g1")), SetAttr(NewDag(PyStr("g1")), "start_date", Date1)},
            edges \in [1..n -> SUBSET ids]}

\* DAGs of n tasks without edges, one of the tasks varied
AttributeDags(n) ==
    UNION {{MakeDag(shell, [i \in 1..n |->
                               WithDownstream(IF i = j THEN v ELSE PlainTask(TaskIds[i]), {})]) :
               shell \in DagShells, v \in TaskVariants(TaskIds[j])} : j \in 1..n}

Dags == UNION {EdgeDags(n) \cup AttributeDags(n) : n \in 0..MaxTasks}

\* the version fields of the payloads that reach from_dict from elsewhere
ForeignVersions ==
    {PyInt(0), PyInt(2), PyStr("1"), PyBool(TRUE), PyFloat(TicksPerSecond), PyNone,
     PyStr("<not present>")}

----------------------------------------------------------------------------
(* The DAG codec as a state machine: a DAG is encoded by to_dict, the      *)
(* payload may be replaced by one of another version, and from_dict        *)
(* decodes it; a task of the DAG is encoded and decoded on its own.        *)

InitGraph == InitCommon /\ var \in Dags

\* validate_schema returning when cls._json_schema is None
validate_schema_Unset(json_schema, verdict) ==
    IF json_schema # "none" /\ ~verdict THEN Raise("ValidationError") ELSE PyNone

\* cls.validate_schema(json_dict): the exception raised, or PyNone.  verdict
\* is whether the validator built from the schema document accepts
validate_schema(json_schema, verdict) ==
    IF json_schema = "none" THEN Raise("AirflowException")
    ELSE IF verdict THEN PyNone ELSE Raise("ValidationError")

\* json_dict of SerializedDAG.to_dict
JsonDict(dag) ==
    PyDict(<< <<PyStr("__version"), PyInt(SERIALIZER_VERSION)>>,
              <<PyStr("dag"), serialize_dag(dag)>> >>)

\* out = SerializedDAG.to_dict(var)
ToDict ==
    /\ last = "init"
    /\ var.t = "dag"
    /\ \E json_schema \in {"set", "none"}, verdict \in BOOLEAN :
          LET json_dict == JsonDict(var)
              raised == validate_schema(json_schema, verdict)
          IN  /\ schema' = json_schema
              /\ accepted' = (json_schema = "set" /\ verdict)
              /\ out' = IF IsRaise(raised) THEN raised ELSE json_dict
              /\ wire' = IF IsRaise(raised) THEN PyNone ELSE json_dict
    /\ last' = "to_dict"
    /\ ndec' = 0
    /\ UNCHANGED <<var, entered>>

\* the payload of another writer: the same DAG under another version field,
\* or under none
ReceiveVersion ==
    /\ last = "to_dict"
    /\ wire # PyNone
    /\ \/ \E ver \in ForeignVersions :
             wire' = PyDict(Put(wire.items, PyStr("__version"), ver))
       \/ wire' = PyDict(SelectSeq(wire.items, LAMBDA item : item[1] # PyStr("__version")))
    /\ last' = "receive"
    /\ UNCHANGED <<var, out, ndec, entered, schema, accepted>>

\* serialized_obj.get('__version', cls.SERIALIZER_VERSION)
GetVersion_DefaultCurrent(serialized_obj) ==
    IF HasKey(serialized_obj, PyStr("__version"))
    THEN Get(serialized_obj, PyStr("__version"))
    ELSE PyInt(SERIALIZER_VERSION)

\* serialized_obj.get('__version', '<not present>')
GetVersion(serialized_obj) ==
    IF HasKey(serialized_obj, PyStr("__version"))
    THEN Get(serialized_obj, PyStr("__version"))
    ELSE PyStr("<not present>")

\* ver != cls.SERIALIZER_VERSION
VersionRejected(ver) == ~PyEq(ver, PyInt(SERIALIZER_VERSION))

\* serialized_obj with its 'dag' as deserialize_dag left it
RepackDag(serialized_obj, r) ==
    Result(r.ret, PyDict(Put(serialized_obj.items, PyStr("dag"), r.arg)))

\* SerializedDAG.from_dict
from_dict(serialized_obj) ==
    IF VersionRejected(GetVersion(serialized_obj))
    THEN Result(Raise("ValueError"), serialized_obj)
    ELSE IF ~HasKey(serialized_obj, PyStr("dag"))
    THEN Result(Raise("KeyError"), serialized_obj)
    ELSE RepackDag(serialized_obj, deserialize_dag(Get(serialized_obj, PyStr("dag"))))

\* from_dict reaches its call of deserialize_dag
EntersDag(serialized_obj) ==
    ~VersionRejected(GetVersion(serialized_obj)) /\ HasKey(serialized_obj, PyStr("dag"))

\* out = SerializedDAG.from_dict(wire)
FromDict ==
    /\ last \in {"to_dict", "receive"}
    /\ wire # PyNone
    /\ Returns(from_dict(wire))
    /\ entered' = EntersDag(wire)
    /\ last' = "from_dict"
    /\ ndec' = ndec + 1
    /\ UNCHANGED <<var, schema, accepted>>

\* wire = SerializedBaseOperator.serialize_operator(task) for a task of the DAG
SerializeOperator ==
    /\ last = "init"
    /\ var.t = "dag"
    /\ \E i \in 1..Len(var.task_dict) :
          /\ var' = var.task_dict[i]
          /\ wire' = serialize_operator(var.task_dict[i])
    /\ out' = wire'
    /\ last' = "serialize_operator"
    /\ UNCHANGED <<ndec, entered, schema, accepted>>

\* out = SerializedBaseOperator.deserialize_operator(wire)
DeserializeOperator ==
    /\ last = "serialize_operator"
    /\ Returns(deserialize_operator(wire))
    /\ last' = "deserialize_operator"
    /\ ndec' = ndec + 1
    /\ UNCHANGED <<var, entered, schema, accepted>>

NextGraph ==
    ToDict \/ ReceiveVersion \/ FromDict \/ SerializeOperator \/ DeserializeOperator

SpecGraph == InitGraph /\ [][NextGraph]_vars

----------------------------------------------------------------------------
(* Properties of the DAG codec.                                            *)

\* the indices of the tasks of a DAG
Tasks(dag) == 1..Len(dag.task_dict)

\* from_dict has returned a DAG
Decoded == last = "from_dict" /\ out.t = "dag"

\* C1 as stated: in the DAG that deserialize_dag returns, every key k of a
\* task n's _downstream_task_ids is a task of the DAG whose _upstream_task_ids
\* holds n's task_id; and in DAG g1 of tasks a and b with b's
\* _downstream_task_ids = {a}, the decoded a has _upstream_task_ids = {b}.
C1_EdgeConsistency ==
    Decoded =>
        /\ \A n \in Tasks(out) : \A k \in out.task_dict[n].attrs._downstream_task_ids.ms :
              \E m \in Tasks(out) :
                  /\ out.task_dict[m].attrs.task_id = k
                  /\ out.task_dict[n].attrs.task_id
                        \in out.task_dict[m].attrs._upstream_task_ids.ms
        /\ (/\ Len(out.task_dict) = 2
            /\ out.attrs._dag_id = PyStr("g1")
            /\ out.task_dict[1].attrs.task_id = PyStr("a")
            /\ out.task_dict[2].attrs.task_id = PyStr("b")
            /\ out.task_dict[1].attrs._downstream_task_ids = PySet({})
            /\ out.task_dict[2].attrs._downstream_task_ids = PySet({PyStr("a")}))
           => out.task_dict[1].attrs._upstream_task_ids = PySet({PyStr("b")})

\* DAG g1 of tasks a and b, b with _downstream_task_ids = {a}, decoded: a's
\* _upstream_task_ids is {a}, b's is empty
C1_Witness ==
    /\ Decoded
    /\ out.attrs._dag_id = PyStr("g1")
    /\ Len(out.task_dict) = 2
    /\ out.task_dict[1].attrs.task_id = PyStr("a")
    /\ out.task_dict[2].attrs.task_id = PyStr("b")
    /\ out.task_dict[1].attrs._downstream_task_ids = PySet({})
    /\ out.task_dict[2].attrs._downstream_task_ids = PySet({PyStr("a")})
    /\ out.task_dict[1].attrs._upstream_task_ids = PySet({PyStr("a")})
    /\ out.task_dict[2].attrs._upstream_task_ids = PySet({})

\* the version field is present and equal to the supported version, as the
\* language compares: 1, 1.0 and True are equal
EqualsSupportedVersion(serialized_obj) ==
    \E item \in Range(serialized_obj.items) :
        /\ item[1] = PyStr("__version")
        /\ item[2] \in {PyInt(1), PyFloat(TicksPerSecond), PyBool(TRUE)}

\* C2: from_dict of a payload whose __version is absent or not equal to
\* SERIALIZER_VERSION raises before deserialize_dag is entered; only a payload
\* whose __version equals it reaches deserialize_dag.
C2_VersionGate ==
    last = "from_dict" =>
        /\ ~EqualsSupportedVersion(wire) => (IsRaise(out) /\ ~entered)
        /\ entered => EqualsSupportedVersion(wire)

C2_Witness ==
    /\ last = "from_dict"
    /\ Get(wire, PyStr("__version")) = PyInt(2)
    /\ out = Raise("ValueError")
    /\ ~entered

\* the date fields of task n of dag that are identical to the DAG's
InheritedDates(dag, n) ==
    {d \in {"start_date", "end_date"} : dag.task_dict[n].attrs[d] = GetAttr(dag, d)}

\* the payload of task n in the payload that to_dict returned
TaskPayload(json_dict, n) == Get(Get(json_dict, PyStr("dag")), PyStr("tasks")).xs[n]

\* C5: a task's date field identical to its DAG's same-named field is left
\* out of the task's payload, and in the DAG decoded from the payload the
\* task's date field equals the DAG's.
C5_DateInheritance ==
    /\ (last = "to_dict" /\ ~IsRaise(out)) =>
          \A n \in Tasks(var) : \A d \in InheritedDates(var, n) :
              ~HasKey(TaskPayload(out, n), PyStr(d))
    /\ (Decoded /\ var.t = "dag") =>
          \A n \in Tasks(var) : \A d \in InheritedDates(var, n) :
              PyEq(out.task_dict[n].attrs[d], out.attrs[d])

C5_Witness ==
    /\ Decoded
    /\ \E n \in Tasks(var) :
          /\ var.task_dict[n].attrs.start_date = Date1
          /\ var.attrs.start_date = Date1
          /\ ~HasKey(TaskPayload(wire, n), PyStr("start_date"))
          /\ out.task_dict[n].attrs.start_date = Date1
          /\ out.attrs.start_date = Date1

\* the operator's payload leaves f out, and the operator decoded from it has
\* the constructor's default for f
Elided(f) ==
    /\ last \in {"serialize_operator", "deserialize_operator"} => ~HasKey(wire, PyStr(f))
    /\ (last = "deserialize_operator" /\ ~IsRaise(out)) =>
          PyEq(out.attrs[f], OpConstructorParams[f])

\* C6 as stated: a field of the constructor-default table whose value equals
\* the constructor's default is absent from the payload of serialize_operator,
\* and deserialize_operator of the payload gives the default back.
C6_EqualDefaultElided ==
    var.t = "operator" =>
        \A f \in DOMAIN OpConstructorParams :
            PyEq(var.attrs[f], OpConstructorParams[f]) => Elided(f)

\* C6 amended: the field is absent from the payload when its value is the
\* very object the constructor's signature holds as default; a value that
\* equals the default but is another object is written to the payload; either
\* way deserialize_operator of the payload gives a value equal to the default.
C6_IdenticalDefaultElided ==
    var.t = "operator" =>
        \A f \in DOMAIN OpConstructorParams :
            /\ f \in var.same => Elided(f)
            /\ (PyEq(var.attrs[f], OpConstructorParams[f]) /\ f \notin var.same) =>
                  /\ last \in {"serialize_operator", "deserialize_operator"} =>
                        HasKey(wire, PyStr(f))
                  /\ (last = "deserialize_operator" /\ ~IsRaise(out)) =>
                        PyEq(out.attrs[f], OpConstructorParams[f])

C6_Witness ==
    /\ last = "deserialize_operator"
    /\ var.t = "operator"
    /\ "owner" \in var.same
    /\ ~HasKey(wire, PyStr("owner"))
    /\ "retry_delay" \notin var.same
    /\ var.attrs.retry_delay = OpConstructorParams.retry_delay
    /\ HasKey(wire, PyStr("retry_delay"))
    /\ out.t = "operator"
    /\ out.attrs.owner = OpConstructorParams.owner
    /\ out.attrs.retry_delay = OpConstructorParams.retry_delay

\* C8: to_dict returns a payload only when a validator is set and accepted
\* it, and raises otherwise; a payload returned has exactly the keys
\* __version, equal to SERIALIZER_VERSION, and dag.
C8_SchemaGated ==
    last = "to_dict" =>
        /\ ~IsRaise(out) => (schema = "set" /\ accepted)
        /\ (schema = "none" \/ ~accepted) => IsRaise(out)
        /\ ~IsRaise(out) =>
              /\ out.t = "dict"
              /\ Len(out.items) = 2
              /\ Keys(out) = {PyStr("__version"), PyStr("dag")}
              /\ Get(out, PyStr("__version")) = PyInt(1)
              /\ Get(out, PyStr("dag")).t = "dict"

C8_Witness ==
    /\ last = "to_dict"
    /\ schema = "set"
    /\ ~accepted
    /\ Len(var.task_dict) = MaxTasks
    /\ out = Raise("ValidationError")
    /\ wire = PyNone

\* v is, or holds at some depth inside a list, tuple, set or mapping, a record
\* with exactly the keys __type and __var
RECURSIVE HoldsEnvelope(_)
HoldsEnvelope(v) ==
    CASE v.t = "list" -> \E i \in 1..Len(v.xs) : HoldsEnvelope(v.xs[i])
      [] v.t = "tuple" -> \E i \in 1..Len(v.tx) : HoldsEnvelope(v.tx[i])
      [] v.t = "set" -> \E m \in v.ms : HoldsEnvelope(m)
      [] v.t = "dict" ->
            \/ IsEnvelope(v)
            \/ \E i \in 1..Len(v.items) : HoldsEnvelope(v.items[i][2])
      [] OTHER -> FALSE

\* C11 as stated: after deserialize_operator(serialize_operator(task)) no
\* field of the decoded operator holds a {__type, __var} record at any
\* nesting depth, also when the task's field was a mapping or array whose
\* elements are mappings, sets, tuples, durations or timestamps.
C11_NoEnvelopeSurvives ==
    (last = "deserialize_operator" /\ out.t = "operator") =>
        \A f \in DOMAIN out.attrs : ~HoldsEnvelope(out.attrs[f])

\* a task with params = {'k': {1}} decoded: params['k'] is the envelope of
\* the set, while executor_config['cpu'] is the set again
C11_Witness ==
    /\ last = "deserialize_operator"
    /\ var.t = "operator"
    /\ var.attrs.params = PyDict(<< <<PyStr("k"), PySet({PyInt(1)})>> >>)
    /\ out.t = "operator"
    /\ out.attrs.params
          = PyDict(<< <<PyStr("k"), _encode(PyList(<<PyInt(1)>>), DAT_SET)>> >>)
    /\ out.attrs.executor_config = PyDict(<< <<PyStr("cpu"), PySet({PyInt(1)})>> >>)

====
